---------------------------- MODULE Spec2Model ----------------------------
(***************************************************************************)
(* Model of the dashboard's metric panel (HeartRateDataComponent.jsx: the  *)
(* fetch / 5-minute cache / abort-controller recipe every panel repeats)   *)
(* and of the pagination helper fetchAllPages (lib/api.js).                *)
(*                                                                         *)
(* Spec       the panel: mount, selection change, retry, unmount, the      *)
(*            resolution of the awaited API call, and the clock.           *)
(* PagesSpec  fetchAllPages run against a bounded server, one page         *)
(*            request per step.                                            *)
(* QuerySpec  the request parameters: a selection resolved by a panel, or  *)
(*            a fetch function of lib/api.js called with its arguments.    *)
(* FilterSpec HomeTab's filter controls and the DateRangePicker modal.     *)
(* LiveSpec   the panel without the clock, every request in flight being  *)
(*            answered eventually.                                         *)
(* SpO2Spec   the SpO2 panel's stored series and its chart points.         *)
(* StatsSpec  the derived statistics and the status bands.                 *)
(* ActivitySpec  ActivitySummary's aggregation and its four rings.         *)
(* DashSpec   RealTimeHealthDashboard: polls, their answers, patient       *)
(*            changes.                                                     *)
(***************************************************************************)
EXTENDS Integers, Sequences, FiniteSets, TLC

\* ------------------------------------------------------------------ bounds
MaxFetches == 3      \* calls of fetchHeartRateData in one behaviour
MaxTicks == 2        \* clock advances in one behaviour
MaxPages == 3        \* pages the bounded server holds

\* --------------------------------------------------------------- constants
Null == "null"                    \* JavaScript null / undefined
FIVE_MINUTES == 300000            \* 5 * 60 * 1000 ms
TickSteps == {1, FIVE_MINUTES - 1}         \* clock advances (ms): both sides of the TTL edge

VARIABLES
  \* --- HeartRateDataComponent instance
  heartRateData,       \* useState([])   : the series the panel holds
  loading,             \* useState(true)
  error,               \* useState(null)
  cacheRef,            \* useRef(new Map()) : cacheKey -> [data, timestamp]
  abortControllerRef,  \* useRef(null)   : id of the current controller, 0 = null
  abortedCtls,         \* controllers whose signal.aborted is true
  isMountedRef,        \* useRef(true)
  \* --- props handed down by HomeTab, and HomeTab's callback target
  selectedUserId,
  dateRange,
  parentData,          \* HomeTab.heartRateData: <<>> while null, <<series>> once set
  cbCount,             \* number of onHeartRateDataUpdate invocations
  \* --- environment
  pending,             \* invocations suspended at `await getHeartRateData(...)`
  now,                 \* Date.now()
  phase,               \* "constructed" | "mounted" | "unmounted"
  nextId,              \* id of the next AbortController / invocation
  lastEvent,           \* history: the step taken last
  \* --- fetchAllPages (lib/api.js) and the server it talks to
  pages,               \* the server: page number -> response
  allResults,
  nextUrl,
  useAbsolute,
  requests,            \* log of the page requests issued
  fapState,            \* "idle" | "running" | "returned" | "thrown"
  thrown,              \* the Error fetchAllPages threw
  result,              \* its return value: <<>> while none, <<list>> once returned
  \* --- request parameters (range resolution, lib/api.js URL builders)
  qIn,                 \* the selection or the arguments resolved
  qOut,                \* the query parameters of the requests built from it
  qState,              \* "idle" | "done", "idle" | "fetched" | "charted"
  \* --- HomeTab filter controls and the DateRangePicker it opens
  showDatePicker,      \* HomeTab useState(false)
  activeFilter,        \* HomeTab useState('today')
  pickerFrom,          \* DateRangePicker fromDate: a day, 0 = ''
  pickerTo,            \* DateRangePicker toDate: a day, 0 = ''
  selectedPeriod,      \* the period prop of HomeTab, set through setSelectedPeriod
  \* --- RealTimeHealthDashboard
  patientId,           \* prop: the patient whose readings are polled
  rtData,              \* useState(null) data   : <<>> while null, <<list>> once set
  rtLatest,            \* useState(null) latest : <<>> while null, <<reading>> once set
  rtLoading,           \* useState(true) loading
  rtError,             \* useState(null) error
  lastFetched,         \* useState(null): FALSE while null
  rtPending,           \* polls suspended at `await fetch(API_URL, ...)`
  rtPolls,             \* number of fetchData calls so far
  rtServed             \* history: patient -> readings the server has answered with

panelVars == <<heartRateData, loading, error, cacheRef, abortControllerRef,
               abortedCtls, isMountedRef, selectedUserId, dateRange,
               parentData, cbCount, pending, now, phase, nextId, lastEvent>>
pageVars == <<pages, allResults, nextUrl, useAbsolute, requests, fapState,
              thrown, result>>
queryVars == <<qIn, qOut, qState>>
filterVars == <<showDatePicker, activeFilter, pickerFrom, pickerTo, selectedPeriod>>
dashVars == <<patientId, rtData, rtLatest, rtLoading, rtError, lastFetched,
              rtPending, rtPolls, rtServed>>
vars == <<panelVars, pageVars, queryVars, filterVars, dashVars>>

\* ------------------------------------------------------------ pure helpers
\* Calendar days are numbered; DayStr is their YYYY-MM-DD rendering.
\* Day 0 is the day before the first day a date picker offers.
DayStr == [d \in 0..3 |-> <<"2025-12-31", "2026-01-01", "2026-01-02", "2026-01-03">>[d + 1]]
Days == 1..3

\* A date as a caller may hand it over: already a YYYY-MM-DD string, or a
\* Date object for local midnight of a day, in a zone ahead of UTC or not.
NoDate == [kind |-> "null", day |-> 0, ahead |-> FALSE]     \* a null date
YmdDate(d) == [kind |-> "ymd", day |-> d, ahead |-> FALSE]
LocalDate(d, ahead) == [kind |-> "date", day |-> d, ahead |-> ahead]

\* formatDateForAPI: a YYYY-MM-DD string is returned as is; anything else
\* goes through new Date(date).toISOString().split('T')[0], the UTC day.
FormatDateForAPI(date) ==
  IF date = NoDate THEN Null
  ELSE IF date.kind = "ymd" THEN DayStr[date.day]
  ELSE IF date.ahead THEN DayStr[date.day - 1]
  ELSE DayStr[date.day]

\* `${selectedUserId || 'null'}`
UserPart_Shared(userId) == "null"
UserPart(userId) == IF userId = Null THEN "null" ELSE userId

\* Range resolution of fetchHeartRateData: API parameters and cache key.
IsCustom(dr) == dr.customRange /\ dr.from # NoDate /\ dr.to # NoDate

PeriodRange(dr) ==
  IF dr.period = "today" THEN "24h"
  ELSE IF dr.period = "week" THEN "7d"
  ELSE IF dr.period = "month" THEN "30d"
  ELSE "24h"

ResolveRange(userId, dr) ==
  IF IsCustom(dr)
  THEN [fromDate |-> FormatDateForAPI(dr.from),
        toDate   |-> FormatDateForAPI(dr.to),
        range    |-> Null,
        cacheKey |-> <<UserPart(userId), FormatDateForAPI(dr.from),
                       FormatDateForAPI(dr.to)>>]
  ELSE [fromDate |-> Null,
        toDate   |-> Null,
        range    |-> PeriodRange(dr),
        cacheKey |-> <<UserPart(userId), PeriodRange(dr)>>]

\* getHeartRateData: the query string it builds (api.js).
GetHeartRateDataQuery(userId, fromDate, toDate, range) ==
  LET base == [user_id |-> userId, from |-> Null, to |-> Null, range |-> Null]
  IN IF fromDate # Null /\ toDate # Null
     THEN [base EXCEPT !.from = fromDate, !.to = toDate]
     ELSE IF range # Null THEN [base EXCEPT !.range = range]
     ELSE IF fromDate # Null THEN [base EXCEPT !.from = fromDate]
     ELSE IF toDate # Null THEN [base EXCEPT !.to = toDate]
     ELSE [base EXCEPT !.range = "24h"]

\* data.sort((a, b) => new Date(a.date) - new Date(b.date)): a stable sort.
RECURSIVE InsertByDate(_, _)
InsertByDate(s, x) ==
  IF s = <<>> THEN <<x>>
  ELSE IF s[Len(s)].date <= x.date THEN Append(s, x)
  ELSE Append(InsertByDate(SubSeq(s, 1, Len(s) - 1), x), s[Len(s)])

SortByDate_Unsorted(s) == s
RECURSIVE SortByDate(_)
SortByDate(s) ==
  IF s = <<>> THEN <<>>
  ELSE InsertByDate(SortByDate(SubSeq(s, 1, Len(s) - 1)), s[Len(s)])

\* Cache freshness test: now - cacheTime < 5 * 60 * 1000
IsFresh_Seconds(entry, t) == t - entry.timestamp < 5 * 60
IsFresh_Inclusive(entry, t) == t - entry.timestamp <= FIVE_MINUTES
IsFresh(entry, t) == t - entry.timestamp < FIVE_MINUTES

CacheHit_AnyAge(key, t) == key \in DOMAIN cacheRef
CacheHit(key, t) == key \in DOMAIN cacheRef /\ IsFresh(cacheRef[key], t)

CacheSet_EvictExpired(cache, key, entry) ==
  [k \in {k2 \in DOMAIN cache : now - cache[k2].timestamp < FIVE_MINUTES} \cup {key}
     |-> IF k = key THEN entry ELSE cache[k]]
CacheSet(cache, key, entry) ==
  [k \in (DOMAIN cache) \cup {key} |-> IF k = key THEN entry ELSE cache[k]]

\* Errors the awaited call can reject with.
HttpError == [name |-> "Error", code |-> Null]            \* thrown by fetchAllPages
AbortError == [name |-> "AbortError", code |-> Null]
CanceledError == [name |-> "CanceledError", code |-> "ERR_CANCELED"]
FetchErrors == {HttpError, AbortError, CanceledError}

\* catch: error.name === 'AbortError' || error.code === 'ERR_CANCELED'
IsAbort_NameOnly(e) == e.name = "AbortError"
IsAbort(e) == e.name = "AbortError" \/ e.code = "ERR_CANCELED"

ErrorMessage == "Failed to load heart rate data. Please try again."

\* ------------------------------------------------- fetchAllPages (api.js)
\* URLs: the initial relative path, or the absolute link a page carries.
NoUrl == [scheme |-> "none", page |-> 0]                  \* null
RelativeUrl(p) == [scheme |-> "relative", page |-> p]
AbsoluteUrl(scheme, p) == [scheme |-> scheme, page |-> p]

\* nextUrl.replace(/^http:\/\//, 'https://')
SecureUrl(url) == IF url.scheme = "http" THEN [url EXCEPT !.scheme = "https"] ELSE url

\* Records the server holds, and the three shapes of a response body.
Item(p, j) == [page |-> p, idx |-> j]
Items(p, n) == [j \in 1..n |-> Item(p, j)]
Envelope(p, n, next) == [shape |-> "envelope", results |-> Items(p, n),
                         next |-> next, self |-> Item(p, 0)]
BareArray(p, n) == [shape |-> "array", results |-> Items(p, n),
                    next |-> NoUrl, self |-> Item(p, 0)]
BareObject(p) == [shape |-> "object", results |-> <<>>,
                  next |-> NoUrl, self |-> Item(p, 0)]

OkResponse(body) == [ok |-> TRUE, status |-> 200, body |-> body]
BadResponse(status, p) == [ok |-> FALSE, status |-> status, body |-> BareObject(p)]

\* What page p of a server may answer.
NextLinks(p) == {NoUrl, AbsoluteUrl("http", p + 1), AbsoluteUrl("https", p + 1)}
PageResponses(p) ==
  {OkResponse(Envelope(p, n, nx)) : n \in {0, 2}, nx \in NextLinks(p)}
    \cup {OkResponse(BareArray(p, n)) : n \in {0, 2}}
    \cup {OkResponse(BareObject(p))}
    \cup {BadResponse(st, p) : st \in {404, 500}}

RECURSIVE ServersOfLen(_)
ServersOfLen(k) ==
  IF k = 0 THEN {<<>>}
  ELSE {Append(srv, r) : srv \in ServersOfLen(k - 1), r \in PageResponses(k)}
Servers == UNION {ServersOfLen(k) : k \in 1..MaxPages}

\* A URL the server does not know answers 404.
Respond(srv, url) ==
  IF url.page \in DOMAIN srv THEN srv[url.page] ELSE BadResponse(404, url.page)

NoError == [name |-> "none", status |-> 0]

\* allResults = allResults.concat(data.results)
Accumulate_Overwrite(all, items) == items
Accumulate(all, items) == all \o items

\* The three branches on the parsed body: what it contributes, where to go on.
Normalize_DropObject(data) ==
  IF data.shape = "envelope" THEN [items |-> data.results, next |-> data.next]
  ELSE IF data.shape = "array" THEN [items |-> data.results, next |-> NoUrl]
  ELSE [items |-> <<>>, next |-> NoUrl]
Normalize(data) ==
  IF data.shape = "envelope" THEN [items |-> data.results, next |-> data.next]
  ELSE IF data.shape = "array" THEN [items |-> data.results, next |-> NoUrl]
  ELSE [items |-> <<data.self>>, next |-> NoUrl]

\* if (!response.ok) throw new Error(`Failed to fetch data: ${response.status}`)
OnBadStatus_ReturnPartial(response) == [state |-> "returned", thrown |-> NoError]
OnBadStatus(response) ==
  [state |-> "thrown", thrown |-> [name |-> "Error", status |-> response.status]]

\* ------------------------------------------------------------ input domains
UserIds == {Null, "u1"}

TodayRange == [customRange |-> FALSE, from |-> NoDate, to |-> NoDate, period |-> "today"]
CustomRange12 == [customRange |-> TRUE, from |-> YmdDate(1), to |-> YmdDate(2),
                  period |-> "custom"]
DateRanges == {TodayRange, CustomRange12}

\* What the backend may answer to one request: nothing, or two samples
\* newest first.  Samples carry the user and range they were
\* queried for.
Sample(req, d) == [date |-> d, once_heart_value |-> 70 + d,
                   user |-> req.userId, key |-> req.cacheKey]
Payloads(req) == {<<>>, <<Sample(req, 2), Sample(req, 1)>>}

NoEvent == [op |-> "none", id |-> 0, key |-> <<>>, current |-> FALSE,
            hit |-> FALSE, data |-> <<>>, err |-> Null, via |-> "none"]

\* ---------------------------------------------------------------- the views
LoadingView == loading
ErrorView == ~loading /\ error # Null
EmptyView == ~loading /\ error = Null /\ heartRateData = <<>>
SuccessView == ~loading /\ error = Null /\ heartRateData # <<>>

\* --------------------------------------------------------------------- Init
PanelFields ==
  /\ heartRateData = <<>>
  /\ loading = TRUE
  /\ error = Null
  /\ cacheRef = <<>>
  /\ abortControllerRef = 0
  /\ abortedCtls = {}
  /\ isMountedRef = TRUE
  /\ selectedUserId \in UserIds
  /\ parentData = <<>>
  /\ cbCount = 0
  /\ pending = {}
  /\ now = 0
  /\ phase = "constructed"
  /\ nextId = 1
  /\ lastEvent = NoEvent

\* HomeTab starts with { from: null, to: null, customRange: false, period }.
PanelInit == PanelFields /\ dateRange = TodayRange

PagesIdle ==
  /\ pages = <<>>
  /\ allResults = <<>>
  /\ nextUrl = NoUrl
  /\ useAbsolute = FALSE
  /\ requests = <<>>
  /\ fapState = "idle"
  /\ thrown = NoError
  /\ result = <<>>

QueryIdle ==
  /\ qIn = <<>>
  /\ qOut = <<>>
  /\ qState = "idle"

FilterIdle ==
  /\ showDatePicker = FALSE
  /\ activeFilter = "today"
  /\ pickerFrom = 0
  /\ pickerTo = 0
  /\ selectedPeriod = "today"

\* RealTimeHealthDashboard after construction.
Patients == {"p1", "p2"}

DashFields ==
  /\ rtData = <<>>
  /\ rtLatest = <<>>
  /\ rtLoading = TRUE
  /\ rtError = Null
  /\ lastFetched = FALSE
  /\ rtPending = {}
  /\ rtPolls = 0
  /\ rtServed = [p \in Patients |-> {}]

DashIdle == DashFields /\ patientId = "p1"

Init == PanelInit /\ PagesIdle /\ QueryIdle /\ FilterIdle /\ DashIdle

\* ------------------------------------------------------------ panel actions
\* fetchHeartRateData up to its await, run for props (userId, dr) with the
\* refs as the caller left them (mountedIn, abortedIn).
FetchHeartRateData(userId, dr, mountedIn, abortedIn, via) ==
  LET rr == ResolveRange(userId, dr)
      id == nextId
      abortedNow == IF abortControllerRef # 0
                    THEN abortedIn \cup {abortControllerRef} ELSE abortedIn
      hit == CacheHit(rr.cacheKey, now)
      req == [id |-> id, userId |-> userId, cacheKey |-> rr.cacheKey,
              query |-> GetHeartRateDataQuery(userId, rr.fromDate, rr.toDate, rr.range)]
  IN /\ nextId <= MaxFetches
     /\ abortedCtls' = abortedNow
     /\ abortControllerRef' = id
     /\ nextId' = nextId + 1
     /\ error' = Null
     /\ IF hit
        THEN /\ pending' = pending
             /\ IF mountedIn
                THEN /\ heartRateData' = cacheRef[rr.cacheKey].data
                     /\ parentData' = <<cacheRef[rr.cacheKey].data>>
                     /\ cbCount' = cbCount + 1
                     /\ loading' = FALSE
                ELSE /\ loading' = TRUE
                     /\ UNCHANGED <<heartRateData, parentData, cbCount>>
        ELSE /\ pending' = pending \cup {req}
             /\ loading' = TRUE
             /\ UNCHANGED <<heartRateData, parentData, cbCount>>
     /\ lastEvent' = [NoEvent EXCEPT !.op = "fetch", !.id = id,
                                     !.key = rr.cacheKey, !.current = TRUE,
                                     !.hit = hit, !.via = via]
     /\ UNCHANGED <<cacheRef, now>>

\* First commit: the effect sets isMountedRef and calls fetchHeartRateData.
Mount ==
  /\ phase = "constructed"
  /\ phase' = "mounted"
  /\ isMountedRef' = TRUE
  /\ FetchHeartRateData(selectedUserId, dateRange, TRUE, abortedCtls, "mount")
  /\ UNCHANGED <<selectedUserId, dateRange, pageVars, queryVars, filterVars, dashVars>>

\* HomeTab passes a new selectedUserId / dateRange: the callback's identity
\* changes, the effect's cleanup runs, then the effect runs again.
ChangeSelection(userId, dr) ==
  /\ phase = "mounted"
  /\ <<userId, dr>> # <<selectedUserId, dateRange>>
  /\ selectedUserId' = userId
  /\ dateRange' = dr
  /\ isMountedRef' = TRUE
  /\ FetchHeartRateData(userId, dr, TRUE,
        IF abortControllerRef # 0 THEN abortedCtls \cup {abortControllerRef}
        ELSE abortedCtls, "change")
  /\ UNCHANGED <<phase, pageVars, queryVars, filterVars, dashVars>>

\* The Retry button of the error view: onClick={fetchHeartRateData}.
Retry ==
  /\ phase = "mounted"
  /\ ErrorView
  /\ FetchHeartRateData(selectedUserId, dateRange, isMountedRef, abortedCtls, "retry")
  /\ UNCHANGED <<isMountedRef, selectedUserId, dateRange, phase, pageVars, queryVars, filterVars, dashVars>>

\* The effect's cleanup on unmount.
Unmount ==
  /\ phase = "mounted"
  /\ phase' = "unmounted"
  /\ isMountedRef' = FALSE
  /\ abortedCtls' = IF abortControllerRef # 0
                    THEN abortedCtls \cup {abortControllerRef} ELSE abortedCtls
  /\ lastEvent' = [NoEvent EXCEPT !.op = "unmount"]
  /\ UNCHANGED <<heartRateData, loading, error, cacheRef, abortControllerRef,
                 selectedUserId, dateRange, parentData, cbCount, pending, now,
                 nextId, pageVars, queryVars, filterVars, dashVars>>

\* The post-await guard:
\*   if (!isMountedRef.current || abortControllerRef.current.signal.aborted) return
Discard_Never == FALSE
Discard == ~isMountedRef \/ abortControllerRef \in abortedCtls

\* finally: if (isMountedRef.current && !abortControllerRef.current?.signal.aborted)
FinallyClearsLoading_Never == FALSE
FinallyClearsLoading == isMountedRef /\ abortControllerRef \notin abortedCtls

\* (variant: the empty branch sets the series but does not call the callback)
ResolveSuccess_SilentEmpty(req, data) ==
  /\ req \in pending
  /\ pending' = pending \ {req}
  /\ IF Discard
     THEN UNCHANGED <<heartRateData, cacheRef, parentData, cbCount>>
     ELSE IF Len(data) > 0
          THEN /\ cacheRef' = CacheSet(cacheRef, req.cacheKey,
                                [data |-> SortByDate(data), timestamp |-> now])
               /\ heartRateData' = SortByDate(data)
               /\ parentData' = <<SortByDate(data)>>
               /\ cbCount' = cbCount + 1
          ELSE /\ heartRateData' = <<>>
               /\ UNCHANGED <<cacheRef, parentData, cbCount>>
  /\ loading' = IF FinallyClearsLoading THEN FALSE ELSE loading
  /\ lastEvent' = [NoEvent EXCEPT !.op = "resolveOk", !.id = req.id,
                                  !.key = req.cacheKey,
                                  !.current = (req.id = abortControllerRef),
                                  !.data = data]
  /\ UNCHANGED <<error, abortControllerRef, abortedCtls, isMountedRef,
                 selectedUserId, dateRange, now, phase, nextId, pageVars,
                 queryVars, filterVars, dashVars>>

\* `await getHeartRateData(...)` of invocation req resolves with data.
ResolveSuccess(req, data) ==
  /\ req \in pending
  /\ pending' = pending \ {req}
  /\ IF Discard
     THEN UNCHANGED <<heartRateData, cacheRef, parentData, cbCount>>
     ELSE IF Len(data) > 0
          THEN /\ cacheRef' = CacheSet(cacheRef, req.cacheKey,
                                [data |-> SortByDate(data), timestamp |-> now])
               /\ IF isMountedRef
                  THEN /\ heartRateData' = SortByDate(data)
                       /\ parentData' = <<SortByDate(data)>>
                       /\ cbCount' = cbCount + 1
                  ELSE UNCHANGED <<heartRateData, parentData, cbCount>>
          ELSE /\ cacheRef' = cacheRef
               /\ IF isMountedRef
                  THEN /\ heartRateData' = <<>>
                       /\ parentData' = << <<>> >>
                       /\ cbCount' = cbCount + 1
                  ELSE UNCHANGED <<heartRateData, parentData, cbCount>>
  /\ loading' = IF FinallyClearsLoading THEN FALSE ELSE loading
  /\ lastEvent' = [NoEvent EXCEPT !.op = "resolveOk", !.id = req.id,
                                  !.key = req.cacheKey,
                                  !.current = (req.id = abortControllerRef),
                                  !.data = data]
  /\ UNCHANGED <<error, abortControllerRef, abortedCtls, isMountedRef,
                 selectedUserId, dateRange, now, phase, nextId, pageVars, queryVars, filterVars, dashVars>>

\* (variant: the catch also empties the series the panel holds)
ResolveFailure_ClearsSeries(req, e) ==
  /\ req \in pending
  /\ pending' = pending \ {req}
  /\ error' = IF IsAbort(e) \/ ~isMountedRef THEN error ELSE ErrorMessage
  /\ heartRateData' = IF IsAbort(e) \/ ~isMountedRef THEN heartRateData ELSE <<>>
  /\ loading' = IF FinallyClearsLoading THEN FALSE ELSE loading
  /\ lastEvent' = [NoEvent EXCEPT !.op = "resolveErr", !.id = req.id,
                                  !.key = req.cacheKey,
                                  !.current = (req.id = abortControllerRef),
                                  !.err = e]
  /\ UNCHANGED <<cacheRef, parentData, cbCount, abortControllerRef, abortedCtls,
                 isMountedRef, selectedUserId, dateRange, now, phase, nextId,
                 pageVars, queryVars, filterVars, dashVars>>

\* (variant: the catch also reports an empty series to the parent)
ResolveFailure_NotifyEmpty(req, e) ==
  /\ req \in pending
  /\ pending' = pending \ {req}
  /\ error' = IF IsAbort(e) \/ ~isMountedRef THEN error ELSE ErrorMessage
  /\ IF IsAbort(e) \/ ~isMountedRef
     THEN UNCHANGED <<parentData, cbCount>>
     ELSE parentData' = << <<>> >> /\ cbCount' = cbCount + 1
  /\ loading' = IF FinallyClearsLoading THEN FALSE ELSE loading
  /\ lastEvent' = [NoEvent EXCEPT !.op = "resolveErr", !.id = req.id,
                                  !.key = req.cacheKey,
                                  !.current = (req.id = abortControllerRef),
                                  !.err = e]
  /\ UNCHANGED <<heartRateData, cacheRef, abortControllerRef, abortedCtls,
                 isMountedRef, selectedUserId, dateRange, now, phase, nextId,
                 pageVars, queryVars, filterVars, dashVars>>

\* `await getHeartRateData(...)` of invocation req rejects with e.
ResolveFailure(req, e) ==
  /\ req \in pending
  /\ pending' = pending \ {req}
  /\ error' = IF IsAbort(e) \/ ~isMountedRef THEN error
              ELSE IF isMountedRef THEN ErrorMessage ELSE error
  /\ loading' = IF FinallyClearsLoading THEN FALSE ELSE loading
  /\ lastEvent' = [NoEvent EXCEPT !.op = "resolveErr", !.id = req.id,
                                  !.key = req.cacheKey,
                                  !.current = (req.id = abortControllerRef),
                                  !.err = e]
  /\ UNCHANGED <<heartRateData, cacheRef, parentData, cbCount,
                 abortControllerRef, abortedCtls, isMountedRef, selectedUserId,
                 dateRange, now, phase, nextId, pageVars, queryVars, filterVars, dashVars>>

\* Time passes.
TicksTaken == (now \div (FIVE_MINUTES - 1)) + (now % (FIVE_MINUTES - 1))
Tick(d) ==
  /\ TicksTaken < MaxTicks
  /\ now' = now + d
  /\ lastEvent' = [NoEvent EXCEPT !.op = "tick"]
  /\ UNCHANGED <<heartRateData, loading, error, cacheRef, abortControllerRef,
                 abortedCtls, isMountedRef, selectedUserId, dateRange,
                 parentData, cbCount, pending, phase, nextId, pageVars, queryVars, filterVars, dashVars>>

Next ==
  \/ Mount
  \/ \E u \in UserIds, dr \in DateRanges : ChangeSelection(u, dr)
  \/ Retry
  \/ Unmount
  \/ \E req \in pending : \E data \in Payloads(req) : ResolveSuccess(req, data)
  \/ \E req \in pending : \E e \in FetchErrors : ResolveFailure(req, e)
  \/ \E d \in TickSteps : Tick(d)

Spec == Init /\ [][Next]_vars

\* Every request the panel has in flight is eventually answered: the browser
\* settles each fetch promise, with a response or with an error.
Resolve ==
  \E req \in pending :
    \/ \E data \in Payloads(req) : ResolveSuccess(req, data)
    \/ \E e \in FetchErrors : ResolveFailure(req, e)

\* The panel's steps with the clock left where it is: no step of the panel
\* waits for time to pass, and cache hits and misses both still occur.
LiveNext ==
  \/ Mount
  \/ \E u \in UserIds, dr \in DateRanges : ChangeSelection(u, dr)
  \/ Retry
  \/ Unmount
  \/ \E req \in pending : \E data \in Payloads(req) : ResolveSuccess(req, data)
  \/ \E req \in pending : \E e \in FetchErrors : ResolveFailure(req, e)

LiveSpec == Init /\ [][LiveNext]_vars /\ WF_vars(Resolve)

\* --------------------------------------------------- fetchAllPages actions
PagesInit ==
  /\ pages \in Servers
  /\ allResults = <<>>
  /\ nextUrl = RelativeUrl(1)
  /\ useAbsolute = FALSE
  /\ requests = <<>>
  /\ fapState = "running"
  /\ thrown = NoError
  /\ result = <<>>

\* One iteration of `while (nextUrl)`: the request, the status check, the
\* branch on the body; the function returns when no next link is left.
FetchPage ==
  /\ fapState = "running"
  /\ nextUrl # NoUrl
  /\ LET url == IF useAbsolute THEN SecureUrl(nextUrl) ELSE nextUrl
         via == IF useAbsolute THEN "authenticatedFetch" ELSE "apiRequest"
         response == Respond(pages, url)
         norm == Normalize(response.body)
     IN /\ requests' = Append(requests, [via |-> via, url |-> url])
        /\ IF ~response.ok
           THEN /\ fapState' = OnBadStatus(response).state
                /\ thrown' = OnBadStatus(response).thrown
                /\ result' = IF OnBadStatus(response).state = "returned"
                             THEN <<allResults>> ELSE result
                /\ UNCHANGED <<allResults, nextUrl, useAbsolute>>
           ELSE /\ allResults' = Accumulate(allResults, norm.items)
                /\ nextUrl' = norm.next
                /\ useAbsolute' = IF norm.next # NoUrl THEN TRUE ELSE useAbsolute
                /\ fapState' = IF norm.next # NoUrl THEN "running" ELSE "returned"
                /\ result' = IF norm.next # NoUrl THEN result
                             ELSE <<Accumulate(allResults, norm.items)>>
                /\ thrown' = thrown
  /\ UNCHANGED <<pages, panelVars, queryVars, filterVars, dashVars>>

PagesNext == FetchPage

PagesStart ==
  PanelInit /\ selectedUserId = Null /\ PagesInit /\ QueryIdle /\ FilterIdle /\ DashIdle

PagesSpec == PagesStart /\ [][PagesNext]_vars

\* ------------------------------------------------- the SpO2 panel's series
\* What getSpO2Data may resolve with: up to MaxReadings readings, in any
\* order, two of which may carry the same date.
MaxReadings == 3

Readings == {[date |-> d, Blood_oxygen |-> v] : d \in 1..2, v \in {96, 98}}

RECURSIVE ReadingsOfLen(_)
ReadingsOfLen(n) ==
  IF n = 0 THEN {<<>>}
  ELSE {Append(s, r) : s \in ReadingsOfLen(n - 1), r \in Readings}

SpO2Payloads == UNION {ReadingsOfLen(n) : n \in 0..MaxReadings}

\* processSpO2Data, first part: keep the first item of every date.
RECURSIVE UniqueByDate(_)
UniqueByDate(data) ==
  IF data = <<>> THEN <<>>
  ELSE LET uniqueData == UniqueByDate(SubSeq(data, 1, Len(data) - 1))
           item == data[Len(data)]
       IN IF \E i \in 1..Len(uniqueData) : uniqueData[i].date = item.date
          THEN uniqueData
          ELSE Append(uniqueData, item)

\* processSpO2Data: the points of the chart.
ProcessSpO2Data(data) ==
  IF data = <<>> THEN <<>>
  ELSE LET sortedData == SortByDate(UniqueByDate(data))
       IN [i \in 1..Len(sortedData) |->
             [date |-> sortedData[i].date, value |-> sortedData[i].Blood_oxygen]]

\* Success branch of fetchSpO2Data for a mounted panel: what is cached, held
\* as spo2Data and handed to onSpO2DataUpdate.
FetchSpO2Data ==
  /\ qState = "idle"
  /\ qOut' = IF Len(qIn) > 0
             THEN [cached |-> <<SortByDate(qIn)>>, spo2Data |-> SortByDate(qIn),
                   parent |-> SortByDate(qIn), chartData |-> <<>>]
             ELSE [cached |-> <<>>, spo2Data |-> <<>>, parent |-> <<>>,
                   chartData |-> <<>>]
  /\ qState' = "fetched"
  /\ UNCHANGED <<qIn, panelVars, pageVars, filterVars, dashVars>>

\* chartData = useMemo(() => processSpO2Data(spo2Data))
RenderSpO2Chart ==
  /\ qState = "fetched"
  /\ qOut' = [qOut EXCEPT !.chartData = ProcessSpO2Data(qOut.spo2Data)]
  /\ qState' = "charted"
  /\ UNCHANGED <<qIn, panelVars, pageVars, filterVars, dashVars>>

SpO2Next == FetchSpO2Data \/ RenderSpO2Chart

SpO2Start ==
  /\ PanelInit /\ selectedUserId = Null /\ PagesIdle /\ FilterIdle /\ DashIdle
  /\ qIn \in SpO2Payloads
  /\ qOut = <<>>
  /\ qState = "idle"

SpO2Spec == SpO2Start /\ [][SpO2Next]_vars

\* ------------------------------------------------------- request parameters
\* getSleepData: the same branches as getHeartRateData.
GetSleepDataQuery(userId, fromDate, toDate, range) ==
  LET base == [user_id |-> userId, from |-> Null, to |-> Null, range |-> Null]
  IN IF fromDate # Null /\ toDate # Null
     THEN [base EXCEPT !.from = fromDate, !.to = toDate]
     ELSE IF range # Null THEN [base EXCEPT !.range = range]
     ELSE IF fromDate # Null
          THEN IF toDate # Null
               THEN [base EXCEPT !.from = fromDate, !.to = toDate]
               ELSE [base EXCEPT !.from = fromDate]
     ELSE IF toDate # Null THEN [base EXCEPT !.to = toDate]
     ELSE [base EXCEPT !.range = "24h"]

\* getStepsData: the user goes into `user`; the dates are tried before the
\* range and there is no final else.
GetStepsDataQuery(userId, fromDate, toDate, range) ==
  LET base == [user |-> userId, from |-> Null, to |-> Null, range |-> Null]
  IN IF fromDate # Null /\ toDate # Null
     THEN [base EXCEPT !.from = fromDate, !.to = toDate]
     ELSE IF fromDate # Null THEN [base EXCEPT !.from = fromDate]
     ELSE IF toDate # Null THEN [base EXCEPT !.to = toDate]
     ELSE IF range # Null THEN [base EXCEPT !.range = range]
     ELSE base

\* getDayTotalActivity(userId, range): it has no date parameters.
GetDayTotalActivityQuery(userId, range) ==
  [user_id |-> userId, from |-> Null, to |-> Null, range |-> range]

\* fetchActivityData: fromDate and toDate are computed for a custom range,
\* but the call is getDayTotalActivity(selectedUserId, range).
FetchActivityDataQuery(userId, dr) ==
  LET fromDate == IF IsCustom(dr) THEN FormatDateForAPI(dr.from) ELSE Null
      toDate == IF IsCustom(dr) THEN FormatDateForAPI(dr.to) ELSE Null
      range == IF IsCustom(dr) THEN Null ELSE PeriodRange(dr)
  IN GetDayTotalActivityQuery(userId, range)

\* fetchHeartRateData (and the Sleep, SpO2, blood pressure, stress and HRV
\* panels alike): the resolved parameters go to the fetch function.
FetchHeartRateDataQuery(userId, dr) ==
  LET r == ResolveRange(userId, dr)
  IN GetHeartRateDataQuery(userId, r.fromDate, r.toDate, r.range)

Panels == {"heartRate", "activity"}
FetchFunctions == {"getSleepData", "getHeartRateData", "getStepsData"}

PanelQuery(panel, userId, dr) ==
  IF panel = "activity" THEN FetchActivityDataQuery(userId, dr)
  ELSE FetchHeartRateDataQuery(userId, dr)

FunctionQuery(fn, userId, fromDate, toDate, range) ==
  IF fn = "getSleepData" THEN GetSleepDataQuery(userId, fromDate, toDate, range)
  ELSE IF fn = "getStepsData" THEN GetStepsDataQuery(userId, fromDate, toDate, range)
  ELSE GetHeartRateDataQuery(userId, fromDate, toDate, range)

\* The dates a dateRange prop may carry, the period tokens (Null: none), and
\* the arguments a fetch function may be called with.
DateInputs ==
  {NoDate} \cup {YmdDate(d) : d \in Days}
           \cup {LocalDate(d, a) : d \in Days, a \in BOOLEAN}
Periods == {"today", "week", "month", "custom", Null}
RangeTokens == {"24h", "7d", "30d"}
DateArgs == {Null} \cup {DayStr[d] : d \in Days}

SelectionInputs ==
  [kind : {"selection"}, panel : Panels, userId : UserIds,
   dr : [customRange : BOOLEAN, from : DateInputs, to : DateInputs,
         period : Periods]]

ArgInputs ==
  [kind : {"args"}, fn : FetchFunctions, userId : UserIds,
   fromDate : DateArgs, toDate : DateArgs, range : RangeTokens \cup {Null}]

\* A panel resolves its selection and issues its request.
FetchPanelData ==
  /\ qState = "idle"
  /\ qIn.kind = "selection"
  /\ qOut' = PanelQuery(qIn.panel, qIn.userId, qIn.dr)
  /\ qState' = "done"
  /\ UNCHANGED <<qIn, panelVars, pageVars, filterVars, dashVars>>

\* A fetch function is called with its four arguments.
CallFetchFunction ==
  /\ qState = "idle"
  /\ qIn.kind = "args"
  /\ qOut' = FunctionQuery(qIn.fn, qIn.userId, qIn.fromDate, qIn.toDate, qIn.range)
  /\ qState' = "done"
  /\ UNCHANGED <<qIn, panelVars, pageVars, filterVars, dashVars>>

QueryNext == FetchPanelData \/ CallFetchFunction

QueryStart ==
  /\ PanelInit /\ selectedUserId = Null /\ PagesIdle /\ FilterIdle /\ DashIdle
  /\ \/ qIn \in SelectionInputs
     \/ qIn \in ArgInputs
  /\ qOut = <<>>
  /\ qState = "idle"

QuerySpec == QueryStart /\ [][QueryNext]_vars

\* ------------------------------------------- HomeTab filter and date picker
\* Everything of the panel but the dateRange prop, which HomeTab owns, and
\* the history of the step taken last.
panelRest == <<heartRateData, loading, error, cacheRef, abortControllerRef,
               abortedCtls, isMountedRef, selectedUserId, parentData, cbCount,
               pending, now, phase, nextId>>

FilterTypes == {"today", "week", "month", "custom"}

\* HomeTab.formatDateForAPI: new Date(date).toISOString().split('T')[0].  A
\* YYYY-MM-DD string parses as UTC midnight and comes back as the same day.
HomeTabFormatDateForAPI(date) ==
  IF date = NoDate THEN NoDate
  ELSE IF date.kind = "ymd" THEN YmdDate(date.day)
  ELSE IF date.ahead THEN YmdDate(date.day - 1)
  ELSE YmdDate(date.day)

\* handleFilterChange(filterType), from the four filter buttons.
HandleFilterChange(filterType) ==
  /\ lastEvent' = [NoEvent EXCEPT !.op = "filterChange"]
  /\ activeFilter' = filterType
  /\ IF filterType = "custom"
     THEN /\ showDatePicker' = TRUE
          /\ dateRange' = [dateRange EXCEPT !.customRange = TRUE, !.period = filterType]
          /\ UNCHANGED <<pickerFrom, pickerTo, selectedPeriod>>
     ELSE /\ showDatePicker' = FALSE
          /\ dateRange' = [from |-> NoDate, to |-> NoDate, customRange |-> FALSE,
                           period |-> filterType]
          /\ selectedPeriod' = filterType
          /\ pickerFrom' = 0 /\ pickerTo' = 0
  /\ UNCHANGED <<panelRest, pageVars, queryVars, dashVars>>

\* The From input of the picker: any day, or cleared.
SetFromDate(d) ==
  /\ lastEvent' = [NoEvent EXCEPT !.op = "setFromDate"]
  /\ showDatePicker
  /\ pickerFrom' = d
  /\ UNCHANGED <<dateRange, showDatePicker, activeFilter, pickerTo, selectedPeriod,
                 panelRest, pageVars, queryVars, dashVars>>

\* The To input of the picker, with min={fromDate}: the days before the
\* From value current at the time of the edit are not offered.
SetToDate(d) ==
  /\ lastEvent' = [NoEvent EXCEPT !.op = "setToDate"]
  /\ showDatePicker
  /\ d = 0 \/ pickerFrom = 0 \/ d >= pickerFrom
  /\ pickerTo' = d
  /\ UNCHANGED <<dateRange, showDatePicker, activeFilter, pickerFrom, selectedPeriod,
                 panelRest, pageVars, queryVars, dashVars>>

\* Apply: handleApply, then handleDateRangeApply(fromDate, toDate); closing
\* the modal unmounts the picker and drops its two fields.
HandleApply ==
  /\ lastEvent' = [NoEvent EXCEPT !.op = "apply"]
  /\ showDatePicker
  /\ pickerFrom # 0 /\ pickerTo # 0
  /\ dateRange' = [from |-> HomeTabFormatDateForAPI(YmdDate(pickerFrom)),
                   to |-> HomeTabFormatDateForAPI(YmdDate(pickerTo)),
                   customRange |-> TRUE, period |-> "custom"]
  /\ showDatePicker' = FALSE
  /\ pickerFrom' = 0 /\ pickerTo' = 0
  /\ UNCHANGED <<activeFilter, selectedPeriod, panelRest, pageVars, queryVars, dashVars>>

\* Cancel or X: onClose = () => setShowDatePicker(false)
ClosePicker ==
  /\ lastEvent' = [NoEvent EXCEPT !.op = "closePicker"]
  /\ showDatePicker
  /\ showDatePicker' = FALSE
  /\ pickerFrom' = 0 /\ pickerTo' = 0
  /\ UNCHANGED <<dateRange, activeFilter, selectedPeriod, panelRest, pageVars,
                 queryVars, dashVars>>

\* (variant: clearing only flips the flags and keeps from and to)
HandleClearFilter_KeepsDates ==
  /\ lastEvent' = [NoEvent EXCEPT !.op = "clearFilter"]
  /\ dateRange.customRange
  /\ activeFilter' = "today"
  /\ dateRange' = [dateRange EXCEPT !.customRange = FALSE, !.period = "today"]
  /\ selectedPeriod' = "today"
  /\ showDatePicker' = FALSE
  /\ pickerFrom' = 0 /\ pickerTo' = 0
  /\ UNCHANGED <<panelRest, pageVars, queryVars, dashVars>>

\* handleClearFilter, from the button shown while dateRange.customRange.
HandleClearFilter ==
  /\ lastEvent' = [NoEvent EXCEPT !.op = "clearFilter"]
  /\ dateRange.customRange
  /\ activeFilter' = "today"
  /\ dateRange' = [from |-> NoDate, to |-> NoDate, customRange |-> FALSE,
                   period |-> "today"]
  /\ selectedPeriod' = "today"
  /\ showDatePicker' = FALSE
  /\ pickerFrom' = 0 /\ pickerTo' = 0
  /\ UNCHANGED <<panelRest, pageVars, queryVars, dashVars>>

FilterNext ==
  \/ \E filterType \in FilterTypes : HandleFilterChange(filterType)
  \/ \E d \in Days \cup {0} : SetFromDate(d)
  \/ \E d \in Days \cup {0} : SetToDate(d)
  \/ HandleApply
  \/ ClosePicker
  \/ HandleClearFilter

\* HomeTab after construction: the period prop is one of the three relative
\* periods (default 'today') and seeds dateRange.period.
FilterStart ==
  /\ PanelFields /\ selectedUserId = Null /\ PagesIdle /\ QueryIdle /\ DashIdle
  /\ selectedPeriod \in {"today", "week", "month"}
  /\ dateRange = [from |-> NoDate, to |-> NoDate, customRange |-> FALSE,
                  period |-> selectedPeriod]
  /\ showDatePicker = FALSE
  /\ activeFilter = "today"
  /\ pickerFrom = 0
  /\ pickerTo = 0

FilterSpec == FilterStart /\ [][FilterNext]_vars

\* ------------------------------------------- derived statistics and status
\* A series argument is <<>> when it is null or undefined, <<series>> else.
MaxSamples == 2
MaxValue == 130

StatSample(v) == [once_heart_value |-> 60 + v, Blood_oxygen |-> 93 + v,
                  sbp |-> 118 + v, dbp |-> 78 + v]
StatSamples == {StatSample(v) : v \in 1..3}

RECURSIVE StatSeriesOfLen(_)
StatSeriesOfLen(n) ==
  IF n = 0 THEN {<<>>}
  ELSE {Append(s, x) : s \in StatSeriesOfLen(n - 1), x \in StatSamples}

StatSeries == UNION {StatSeriesOfLen(n) : n \in 0..MaxSamples}
SeriesArgs == {<<>>} \cup {<<s>> : s \in StatSeries}

\* !data || data.length === 0
NoData(data) == data = <<>> \/ Len(data[1]) = 0

RECURSIVE SumOf(_, _)
SumOf(s, field) ==
  IF s = <<>> THEN 0 ELSE SumOf(SubSeq(s, 1, Len(s) - 1), field) + s[Len(s)][field]

\* Math.round(sum / length) for a non-negative sum: halves go up.
Round(sum, length) == (2 * sum + length) \div (2 * length)

\* Math.min(...values), Math.max(...values) of a non-empty list
MinOf(s, field) ==
  CHOOSE m \in {s[i][field] : i \in 1..Len(s)} :
    \A i \in 1..Len(s) : m <= s[i][field]
MaxOf(s, field) ==
  CHOOSE m \in {s[i][field] : i \in 1..Len(s)} :
    \A i \in 1..Len(s) : m >= s[i][field]

\* (variant: no guard for the empty list; 0 / 0 is NaN, written -1)
CalculateAverageHeartRate_Unguarded(data) ==
  IF data = <<>> THEN 0
  ELSE IF Len(data[1]) = 0 THEN -1
  ELSE Round(SumOf(data[1], "once_heart_value"), Len(data[1]))

CalculateAverageHeartRate(data) ==
  IF NoData(data) THEN 0
  ELSE Round(SumOf(data[1], "once_heart_value"), Len(data[1]))

CalculateMinMaxHeartRate(data) ==
  IF NoData(data) THEN [min |-> 0, max |-> 0]
  ELSE [min |-> MinOf(data[1], "once_heart_value"),
        max |-> MaxOf(data[1], "once_heart_value")]

CalculateAverageSpO2(data) ==
  IF NoData(data) THEN 0
  ELSE Round(SumOf(data[1], "Blood_oxygen"), Len(data[1]))

CalculateMinMaxSpO2(data) ==
  IF NoData(data) THEN [min |-> 0, max |-> 0]
  ELSE [min |-> MinOf(data[1], "Blood_oxygen"),
        max |-> MaxOf(data[1], "Blood_oxygen")]

CalculateAverageBP(data) ==
  IF NoData(data) THEN [systolic |-> 0, diastolic |-> 0]
  ELSE [systolic |-> Round(SumOf(data[1], "sbp"), Len(data[1])),
        diastolic |-> Round(SumOf(data[1], "dbp"), Len(data[1]))]

\* The status bands.
GetHeartRateStatus_OpenAbove(value) ==
  IF value >= 60 /\ value < 100 THEN "Normal"
  ELSE IF value >= 50 /\ value <= 120 THEN "Elevated"
  ELSE IF value < 50 THEN "Low"
  ELSE "High"

GetHeartRateStatus(value) ==
  IF value >= 60 /\ value <= 100 THEN "Normal"
  ELSE IF value >= 50 /\ value <= 120 THEN "Elevated"
  ELSE IF value < 50 THEN "Low"
  ELSE "High"

GetSpO2Status(value) ==
  IF value >= 95 THEN "Normal"
  ELSE IF value >= 90 THEN "Low"
  ELSE "Critical"

GetStressStatus(value) ==
  IF value < 30 THEN "Low"
  ELSE IF value < 60 THEN "Moderate"
  ELSE "High"

ReadingValues == 0..MaxValue

\* The panel computes its statistics from the series it holds.
ComputeStatistics ==
  /\ qState = "idle"
  /\ qIn.kind = "series"
  /\ qOut' = [averageHeartRate |-> CalculateAverageHeartRate(qIn.data),
              minMaxHeartRate |-> CalculateMinMaxHeartRate(qIn.data),
              averageSpO2 |-> CalculateAverageSpO2(qIn.data),
              minMaxSpO2 |-> CalculateMinMaxSpO2(qIn.data),
              averageBP |-> CalculateAverageBP(qIn.data)]
  /\ qState' = "computed"
  /\ UNCHANGED <<qIn, panelVars, pageVars, filterVars, dashVars>>

\* The panels classify one reading.
ClassifyReading ==
  /\ qState = "idle"
  /\ qIn.kind = "value"
  /\ qOut' = [heartRate |-> GetHeartRateStatus(qIn.value),
              spo2 |-> GetSpO2Status(qIn.value),
              stress |-> GetStressStatus(qIn.value)]
  /\ qState' = "classified"
  /\ UNCHANGED <<qIn, panelVars, pageVars, filterVars, dashVars>>

StatsNext == ComputeStatistics \/ ClassifyReading

StatsStart ==
  /\ PanelInit /\ selectedUserId = Null /\ PagesIdle /\ FilterIdle /\ DashIdle
  /\ \/ qIn \in [kind : {"series"}, data : SeriesArgs]
     \/ qIn \in [kind : {"value"}, value : ReadingValues]
  /\ qOut = <<>>
  /\ qState = "idle"

StatsSpec == StatsStart /\ [][StatsNext]_vars

\* ------------------------------------------------ ActivitySummary's rings
\* response.results of getDayTotalActivity: one record per day.
MaxRecords == 2

ActivityRecords ==
  [date : 1..2, step : {4000, 12000}, distance : {1, 3},
   calories : {200, 600}, exercise_minutes : {20, 70}]

RECURSIVE ActivityResultsOfLen(_)
ActivityResultsOfLen(n) ==
  IF n = 0 THEN {<<>>}
  ELSE {Append(s, x) : s \in ActivityResultsOfLen(n - 1), x \in ActivityRecords}

ActivityResults == UNION {ActivityResultsOfLen(n) : n \in 0..MaxRecords}

\* The daily goals of getChartData.
DailyGoals == [step |-> 10000, distance |-> 5, calories |-> 500,
               exercise_minutes |-> 60]

\* Aggregation of fetchActivityData: sums of steps, calories and exercise
\* minutes, the average distance per record (a fraction num / den) and the
\* number of records; null (<<>>) when there are no results.
ProcessActivityData(results) ==
  IF Len(results) > 0
  THEN LET sortedData == SortByDate(results)
       IN <<[calories |-> SumOf(sortedData, "calories"),
             step |-> SumOf(sortedData, "step"),
             distance |-> [num |-> SumOf(sortedData, "distance"),
                           den |-> Len(sortedData)],
             exercise_minutes |-> SumOf(sortedData, "exercise_minutes"),
             recordCount |-> Len(sortedData)]>>
  ELSE <<>>

Min(a, b) == IF a <= b THEN a ELSE b

\* getChartData: percentage and goal of the four rings.
GetChartData(activity) ==
  IF activity = <<>>
  THEN [label \in {"Steps", "Distance", "Calories", "Exercise"} |->
          [percentage |-> 0,
           goal |-> IF label = "Steps" THEN DailyGoals.step
                    ELSE IF label = "Distance" THEN DailyGoals.distance
                    ELSE IF label = "Calories" THEN DailyGoals.calories
                    ELSE DailyGoals.exercise_minutes]]
  ELSE LET activityData == activity[1]
           daysMultiplier == IF activityData.recordCount = 0 THEN 1
                             ELSE activityData.recordCount
       IN [Steps |->
             [percentage |-> Min(Round(activityData.step * 100,
                                       DailyGoals.step * daysMultiplier), 100),
              goal |-> DailyGoals.step * daysMultiplier],
           Distance |->
             [percentage |-> Min(Round(activityData.distance.num * daysMultiplier * 100,
                                       activityData.distance.den * DailyGoals.distance), 100),
              goal |-> DailyGoals.distance * daysMultiplier],
           Calories |->
             [percentage |-> Min(Round(activityData.calories * 100,
                                       DailyGoals.calories * daysMultiplier), 100),
              goal |-> DailyGoals.calories * daysMultiplier],
           Exercise |->
             [percentage |-> Min(Round(activityData.exercise_minutes * 100,
                                       DailyGoals.exercise_minutes * daysMultiplier), 100),
              goal |-> DailyGoals.exercise_minutes * daysMultiplier]]

\* fetchActivityData resolves with qIn as response.results (no custom
\* range, so nothing is filtered out).
FetchActivityData ==
  /\ qState = "idle"
  /\ qOut' = [activityData |-> ProcessActivityData(qIn), chartData |-> <<>>]
  /\ qState' = "fetched"
  /\ UNCHANGED <<qIn, panelVars, pageVars, filterVars, dashVars>>

\* const chartData = getChartData()
RenderActivityRings ==
  /\ qState = "fetched"
  /\ qOut' = [qOut EXCEPT !.chartData = <<GetChartData(qOut.activityData)>>]
  /\ qState' = "charted"
  /\ UNCHANGED <<qIn, panelVars, pageVars, filterVars, dashVars>>

ActivityNext == FetchActivityData \/ RenderActivityRings

ActivityStart ==
  /\ PanelInit /\ selectedUserId = Null /\ PagesIdle /\ FilterIdle /\ DashIdle
  /\ qIn \in ActivityResults
  /\ qOut = <<>>
  /\ qState = "idle"

ActivitySpec == ActivityStart /\ [][ActivityNext]_vars

\* -------------------------------------------------- real-time dashboard
MaxPolls == 3

\* What the real-time endpoint may answer for patient p: a list of readings.
Reading(p, t) == [user |-> p, heartRate |-> 70 + t, spo2 |-> 95 + t, timestamp |-> t]
Responses(p) == {<<>>, <<Reading(p, 1)>>, <<Reading(p, 2), Reading(p, 1)>>}

\* The readings the catch block puts in place of a response.
MockData(p) ==
  <<[user |-> p, heartRate |-> 79, spo2 |-> 99, timestamp |-> 1771059975],
    [user |-> p, heartRate |-> 97, spo2 |-> 98, timestamp |-> 1771001294],
    [user |-> p, heartRate |-> 71, spo2 |-> 97, timestamp |-> 1770999872]>>

PollErrors == {"HTTP 500", "Failed to fetch"}

\* getLatestData: null for no data, else the reading with the greatest
\* timestamp (the first of them).
RECURSIVE LatestOf(_)
LatestOf(list) ==
  IF Len(list) = 1 THEN list[1]
  ELSE LET latest == LatestOf(SubSeq(list, 1, Len(list) - 1))
           curr == list[Len(list)]
       IN IF curr.timestamp > latest.timestamp THEN curr ELSE latest

GetLatestData(list) == IF Len(list) = 0 THEN <<>> ELSE <<LatestOf(list)>>

\* fetchData up to its await: called by the effect, by the 30 s interval
\* and by the refresh button.
FetchData ==
  /\ rtPolls < MaxPolls
  /\ rtPolls' = rtPolls + 1
  /\ rtPending' = rtPending \cup {[id |-> rtPolls + 1, patientId |-> patientId]}
  /\ lastEvent' = [NoEvent EXCEPT !.op = "poll", !.id = rtPolls + 1]
  /\ UNCHANGED <<patientId, rtData, rtLatest, rtLoading, rtError, lastFetched,
                 rtServed, panelRest, dateRange, pageVars, queryVars, filterVars>>

\* The patientId prop changes: the effect clears the interval and runs again,
\* calling fetchData for the new patient.  Polls in flight are not cancelled.
ChangePatient(p) ==
  /\ p # patientId
  /\ rtPolls < MaxPolls
  /\ patientId' = p
  /\ rtPolls' = rtPolls + 1
  /\ rtPending' = rtPending \cup {[id |-> rtPolls + 1, patientId |-> p]}
  /\ lastEvent' = [NoEvent EXCEPT !.op = "changePatient", !.id = rtPolls + 1]
  /\ UNCHANGED <<rtData, rtLatest, rtLoading, rtError, lastFetched, rtServed,
                 panelRest, dateRange, pageVars, queryVars, filterVars>>

\* res.ok: the try block runs to its end.
PollOk(req, json) ==
  /\ req \in rtPending
  /\ rtPending' = rtPending \ {req}
  /\ rtServed' = [rtServed EXCEPT ![req.patientId] =
                    @ \cup {json[i] : i \in 1..Len(json)}]
  /\ rtData' = <<json>>
  /\ rtLatest' = GetLatestData(json)
  /\ lastFetched' = TRUE
  /\ rtError' = Null
  /\ rtLoading' = FALSE
  /\ lastEvent' = [NoEvent EXCEPT !.op = "pollOk", !.id = req.id]
  /\ UNCHANGED <<patientId, rtPolls, panelRest, dateRange, pageVars, queryVars,
                 filterVars>>

\* fetch rejects or !res.ok: the catch block.
PollFail(req, message) ==
  /\ req \in rtPending
  /\ rtPending' = rtPending \ {req}
  /\ rtError' = message
  /\ rtData' = <<MockData(req.patientId)>>
  /\ rtLatest' = GetLatestData(MockData(req.patientId))
  /\ lastFetched' = TRUE
  /\ rtLoading' = FALSE
  /\ lastEvent' = [NoEvent EXCEPT !.op = "pollFail", !.id = req.id]
  /\ UNCHANGED <<patientId, rtPolls, rtServed, panelRest, dateRange, pageVars,
                 queryVars, filterVars>>

DashNext ==
  \/ FetchData
  \/ \E p \in Patients : ChangePatient(p)
  \/ \E req \in rtPending : \E json \in Responses(req.patientId) : PollOk(req, json)
  \/ \E req \in rtPending : \E message \in PollErrors : PollFail(req, message)

DashStart ==
  /\ PanelInit /\ selectedUserId = Null /\ PagesIdle /\ QueryIdle /\ FilterIdle
  /\ DashFields
  /\ patientId \in Patients

DashSpec == DashStart /\ [][DashNext]_vars

\* ------------------------------------------------------------------ claims
IsResolve(ev) == ev.op \in {"resolveOk", "resolveErr"}

\* C1 (as claimed): the resolution of a fetch that was superseded before it
\* resolved changes neither the series, the error nor the loading flag, and
\* does not invoke the parent callback.
C1_SupersededResolutionInert ==
  [][(IsResolve(lastEvent') /\ ~lastEvent'.current)
       => UNCHANGED <<heartRateData, error, loading, cbCount>>]_vars

\* C2 (as claimed): a panel instance never has more than one API call in
\* flight.
C2_AtMostOneInFlight == Cardinality(pending) <= 1

\* C3: once the panel is unmounted, the resolution of any of its fetches
\* leaves series, loading, error, the parent's copy, the callback count and
\* the cache as they were.
C3_ResolutionAfterUnmountIgnored ==
  [][(IsResolve(lastEvent') /\ ~isMountedRef)
       => UNCHANGED <<heartRateData, loading, error, parentData, cbCount,
                      cacheRef>>]_vars

C3_Witness ==
  /\ lastEvent.op = "resolveOk"
  /\ lastEvent.data # <<>>
  /\ ~isMountedRef

\* C4: a refresh whose key has an entry stored less than 5 minutes ago shows
\* exactly the stored series and issues no request.
C4_FreshEntryServed ==
  [][(/\ lastEvent'.op = "fetch"
      /\ lastEvent'.key \in DOMAIN cacheRef
      /\ now - cacheRef[lastEvent'.key].timestamp < FIVE_MINUTES)
       => /\ heartRateData' = cacheRef[lastEvent'.key].data
          /\ ~loading' /\ error' = Null
          /\ pending' = pending]_vars

C4_Witness ==
  /\ lastEvent.op = "fetch"
  /\ lastEvent.hit
  /\ now - cacheRef[lastEvent.key].timestamp = FIVE_MINUTES - 1
  /\ heartRateData = cacheRef[lastEvent.key].data
  /\ heartRateData # <<>>

\* C5: a refresh whose key has an entry stored 5 minutes ago or earlier
\* issues a request for that key and does not show the cached series.
C5_StaleEntryRefetched ==
  [][(/\ lastEvent'.op = "fetch"
      /\ lastEvent'.key \in DOMAIN cacheRef
      /\ now - cacheRef[lastEvent'.key].timestamp >= FIVE_MINUTES)
       => /\ \E req \in pending' \ pending :
               req.id = lastEvent'.id /\ req.cacheKey = lastEvent'.key
          /\ heartRateData' = heartRateData
          /\ loading']_vars

C5_Witness ==
  /\ lastEvent.op = "fetch"
  /\ ~lastEvent.hit
  /\ lastEvent.key \in DOMAIN cacheRef
  /\ now - cacheRef[lastEvent.key].timestamp = FIVE_MINUTES
  /\ \E req \in pending : req.id = lastEvent.id

\* C6 (as claimed): a current, mounted fetch that resolves with an empty
\* result shows the empty series and stores it in the cache at that time.
C6_EmptyResultCached ==
  [][(/\ lastEvent'.op = "resolveOk"
      /\ lastEvent'.data = <<>>
      /\ lastEvent'.current
      /\ isMountedRef)
       => /\ heartRateData' = <<>>
          /\ lastEvent'.key \in DOMAIN cacheRef'
          /\ cacheRef'[lastEvent'.key] = [data |-> <<>>, timestamp |-> now]]_vars

\* A server is a chain when every page answers with an envelope whose next
\* link is the following page, the last page's being null.
IsChain(srv) ==
  \A p \in DOMAIN srv :
    /\ srv[p].ok
    /\ srv[p].body.shape = "envelope"
    /\ IF p < Len(srv) THEN srv[p].body.next.page = p + 1
       ELSE srv[p].body.next = NoUrl

RECURSIVE ChainResults(_, _)
ChainResults(srv, k) ==
  IF k = 0 THEN <<>> ELSE ChainResults(srv, k - 1) \o srv[k].body.results

\* C7: on a chain of k pages fetchAllPages issues exactly k requests, page 1
\* to page k in order, and returns the pages' results concatenated in order.
C7_ChainComplete ==
  (IsChain(pages) /\ fapState # "running")
    => /\ fapState = "returned"
       /\ Len(requests) = Len(pages)
       /\ \A i \in 1..Len(requests) : requests[i].url.page = i
       /\ result = <<ChainResults(pages, Len(pages))>>

C7_Witness ==
  /\ IsChain(pages)
  /\ Len(pages) = 3
  /\ fapState = "returned"
  /\ Len(requests) = 3
  /\ Len(result[1]) = 6

\* C8: a page answering with a non-success status makes fetchAllPages throw
\* an error carrying that status; it is the last request issued and nothing
\* is returned.
C8_BadStatusAborts ==
  \A i \in 1..Len(requests) :
    ~Respond(pages, requests[i].url).ok
      => /\ fapState = "thrown"
         /\ thrown.name = "Error"
         /\ thrown.status = Respond(pages, requests[i].url).status
         /\ i = Len(requests)
         /\ result = <<>>

C8_Witness ==
  /\ fapState = "thrown"
  /\ Len(requests) = 2
  /\ thrown.status = 500
  /\ Len(allResults) = 2
  /\ Len(pages) = 3

\* C9: each successful page contributes by its shape: an envelope its
\* results, going on to its next link if it has one; a bare array its
\* elements, ending the fetch; any other object itself, ending the fetch.
C9_ShapesNormalized ==
  [][LET url == requests'[Len(requests')].url
         body == Respond(pages, url).body
     IN (Len(requests') = Len(requests) + 1 /\ Respond(pages, url).ok)
          => /\ body.shape = "envelope" =>
                  /\ allResults' = allResults \o body.results
                  /\ IF body.next # NoUrl
                     THEN fapState' = "running" /\ nextUrl' = body.next
                     ELSE fapState' = "returned" /\ result' = <<allResults'>>
             /\ body.shape = "array" =>
                  /\ allResults' = allResults \o body.results
                  /\ fapState' = "returned" /\ result' = <<allResults'>>
             /\ body.shape = "object" =>
                  /\ allResults' = Append(allResults, body.self)
                  /\ fapState' = "returned" /\ result' = <<allResults'>>]_vars

C9_Witness ==
  /\ fapState = "returned"
  /\ Len(requests) = 2
  /\ pages[1].body.shape = "envelope"
  /\ pages[2].ok /\ pages[2].body.shape = "object"
  /\ result = <<Append(pages[1].body.results, pages[2].body.self)>>
  /\ Len(result[1]) = 3

\* C10: a failure that is an abort (AbortError or ERR_CANCELED) leaves the
\* error as it was and does not bring the panel into the error view; any
\* other failure of a mounted panel sets the generic message and shows the
\* error view.
C10_AbortSwallowed ==
  [][lastEvent'.op = "resolveErr"
       => IF lastEvent'.err.name = "AbortError" \/ lastEvent'.err.code = "ERR_CANCELED"
          THEN /\ error' = error
               /\ ~((~loading' /\ error' # Null) /\ ~ErrorView)
          ELSE isMountedRef => (error' = ErrorMessage /\ ~loading')]_vars

C10_Witness ==
  /\ lastEvent.op = "resolveErr"
  /\ lastEvent.err = CanceledError
  /\ lastEvent.current
  /\ isMountedRef
  /\ error = Null
  /\ ~loading

\* C11: the failure of a fetch never invokes the parent callback; every
\* invocation comes from a successful resolution or a cache hit, and what
\* the parent holds is a series a successful fetch delivered.
C11_FailureStaysInPanel ==
  [][/\ lastEvent'.op = "resolveErr" => (cbCount' = cbCount /\ parentData' = parentData)
     /\ (cbCount' # cbCount \/ parentData' # parentData)
          => \/ lastEvent'.op = "resolveOk"
             \/ lastEvent'.op = "fetch" /\ lastEvent'.hit]_vars

C11_Witness ==
  /\ lastEvent.op = "resolveErr"
  /\ lastEvent.err = HttpError
  /\ isMountedRef
  /\ error = ErrorMessage /\ ~loading
  /\ parentData = <<>> /\ cbCount = 0

\* C12: a successful resolution at a mounted panel, empty or not, invokes
\* the callback exactly once, with the series the panel holds afterwards.
C12_SuccessNotifiesOnce ==
  [][(lastEvent'.op = "resolveOk" /\ isMountedRef)
       => /\ cbCount' = cbCount + 1
          /\ parentData' = <<heartRateData'>>]_vars

C12_Witness ==
  /\ lastEvent.op = "resolveOk"
  /\ lastEvent.data = <<>>
  /\ isMountedRef
  /\ cbCount = 1
  /\ parentData = << <<>> >>
  /\ heartRateData = <<>>

SelectionChanged == <<selectedUserId, dateRange>>' # <<selectedUserId, dateRange>>

\* C13 (as claimed): every change of the selected user or date range sets
\* loading and clears the error.
C13_ChangeEntersLoading ==
  [][SelectionChanged => (loading' /\ error' = Null)]_vars

\* C13 (amended): every change of the selection clears the error; it sets
\* loading unless the cache holds an entry for the new key younger than 5
\* minutes, in which case the cached series is shown at once.
C13_ChangeEntersLoadingUnlessCached ==
  [][SelectionChanged
       => /\ error' = Null
          /\ LET key == lastEvent'.key
             IN IF key \in DOMAIN cacheRef
                   /\ now - cacheRef[key].timestamp < FIVE_MINUTES
                THEN ~loading' /\ heartRateData' = cacheRef[key].data
                ELSE loading' /\ heartRateData' = heartRateData]_vars

C13_Witness ==
  /\ lastEvent.op = "fetch"
  /\ lastEvent.via = "change"
  /\ lastEvent.hit
  /\ ~loading /\ error = Null
  /\ heartRateData # <<>>
  /\ heartRateData = cacheRef[lastEvent.key].data

IsSortedByDate(s) == \A i \in 1..(Len(s) - 1) : s[i].date <= s[i + 1].date

\* C14: a non-empty series the panel holds is sorted ascending by date, so
\* its last sample has the greatest date.
C14_SeriesSorted ==
  heartRateData # <<>>
    => /\ IsSortedByDate(heartRateData)
       /\ \A i \in 1..Len(heartRateData) :
            heartRateData[i].date <= heartRateData[Len(heartRateData)].date

C14_Witness ==
  /\ lastEvent.op = "fetch"
  /\ lastEvent.hit
  /\ Len(heartRateData) = 2
  /\ heartRateData[1].date < heartRateData[2].date

SameSamples(s, t) ==
  /\ Len(s) = Len(t)
  /\ {s[i] : i \in 1..Len(s)} = {t[i] : i \in 1..Len(t)}

\* C16: no step removes a key from the cache; an entry is added or changed
\* only by the store of a successful resolution for that very key, which
\* replaces it with exactly the fetched series (sorted) and the current
\* time; the entries of all other keys, expired or not, stay as they are.
C16_CacheKeysNeverRemoved ==
  [][/\ DOMAIN cacheRef \subseteq DOMAIN cacheRef'
     /\ \A k \in DOMAIN cacheRef' :
          (k \notin DOMAIN cacheRef \/ cacheRef'[k] # cacheRef[k])
            => /\ lastEvent'.op = "resolveOk"
               /\ lastEvent'.key = k
               /\ cacheRef'[k].timestamp = now
               /\ IsSortedByDate(cacheRef'[k].data)
               /\ SameSamples(cacheRef'[k].data, lastEvent'.data)]_vars

C16_Witness ==
  /\ lastEvent.op = "resolveOk"
  /\ lastEvent.key \in DOMAIN cacheRef
  /\ cacheRef[lastEvent.key].timestamp = now
  /\ \E k \in DOMAIN cacheRef :
       /\ k # lastEvent.key
       /\ now - cacheRef[k].timestamp >= FIVE_MINUTES

OnePerDate(s) == \A i, j \in 1..Len(s) : i # j => s[i].date # s[j].date

\* C15 (as claimed): the series the SpO2 panel caches, holds and reports to
\* the parent after a fetch carries one sample per timestamp.
C15_SpO2StoredSeriesDeduplicated ==
  qState \in {"fetched", "charted"}
    => /\ OnePerDate(qOut.spo2Data)
       /\ OnePerDate(qOut.parent)
       /\ \A i \in 1..Len(qOut.cached) : OnePerDate(qOut.cached[i])

RelativeSelection(dr) ==
  dr.from = NoDate /\ dr.to = NoDate /\ dr.period \in {"today", "week", "month", Null}

ExpectedRange(period) ==
  IF period = "week" THEN "7d" ELSE IF period = "month" THEN "30d" ELSE "24h"

\* C17 (as claimed): a relative selection without dates yields a request
\* with range 24h / 7d / 30d for today / week / month and no from/to, and
\* with neither token nor dates the request carries range=24h; the same in
\* the fetch functions called with a token, or with nothing at all.
C17_RelativeRangeSent ==
  qState = "done"
    => /\ (qIn.kind = "selection" /\ RelativeSelection(qIn.dr))
            => /\ qOut.range = ExpectedRange(qIn.dr.period)
               /\ qOut.from = Null /\ qOut.to = Null
       /\ (qIn.kind = "args" /\ qIn.fromDate = Null /\ qIn.toDate = Null)
            => /\ qOut.range = (IF qIn.range = Null THEN "24h" ELSE qIn.range)
               /\ qOut.from = Null /\ qOut.to = Null

\* C18 (as claimed): for a custom selection with both dates and from <= to,
\* every panel's request carries the two days verbatim as YYYY-MM-DD and no
\* range, whatever the representation of the dates.
C18_AbsoluteRangeSentVerbatim ==
  (/\ qState = "done"
   /\ qIn.kind = "selection"
   /\ IsCustom(qIn.dr)
   /\ qIn.dr.from.day <= qIn.dr.to.day)
    => /\ qOut.from = DayStr[qIn.dr.from.day]
       /\ qOut.to = DayStr[qIn.dr.to.day]
       /\ qOut.range = Null

\* C19 (as claimed): in the fetch functions, without a range token a lone
\* from or to is sent alone and no range is added; the request carries the
\* default range=24h exactly when from, to and range are all absent.
C19_PartialFilterOrDefault ==
  (qState = "done" /\ qIn.kind = "args" /\ qIn.range = Null)
    => /\ (qIn.fromDate # Null /\ qIn.toDate = Null)
            => qOut = [qOut EXCEPT !.from = qIn.fromDate, !.to = Null, !.range = Null]
       /\ (qIn.fromDate = Null /\ qIn.toDate # Null)
            => qOut = [qOut EXCEPT !.from = Null, !.to = qIn.toDate, !.range = Null]
       /\ (qOut.range = "24h") <=> (qIn.fromDate = Null /\ qIn.toDate = Null)

\* C20 (as claimed): an absolute date range handed to the panels always has
\* from <= to, whatever was edited in the date picker before Apply.
C20_AppliedRangeOrdered ==
  IsCustom(dateRange) => dateRange.from.day <= dateRange.to.day

\* C21: for a missing or empty series the statistics are computed without
\* an exception: both averages are 0, both min/max pairs are {0, 0} and the
\* blood pressure average is systolic 0, diastolic 0.
C21_EmptySeriesStatistics ==
  (qState = "computed" /\ NoData(qIn.data))
    => /\ qOut.averageHeartRate = 0
       /\ qOut.minMaxHeartRate = [min |-> 0, max |-> 0]
       /\ qOut.averageSpO2 = 0
       /\ qOut.minMaxSpO2 = [min |-> 0, max |-> 0]
       /\ qOut.averageBP = [systolic |-> 0, diastolic |-> 0]

C21_Witness ==
  /\ qState = "computed"
  /\ qIn.data = << <<>> >>
  /\ qOut.averageHeartRate = 0
  /\ qOut.averageBP.systolic = 0

\* C22: heart rate is Normal exactly for 60..100, SpO2 is Normal exactly
\* from 95 up, stress is Low exactly below 30, and every value gets one of
\* the statuses of its scale.
C22_StatusBands ==
  qState = "classified"
    => /\ (qOut.heartRate = "Normal") <=> (60 <= qIn.value /\ qIn.value <= 100)
       /\ (qOut.spo2 = "Normal") <=> (qIn.value >= 95)
       /\ (qOut.stress = "Low") <=> (qIn.value < 30)
       /\ qOut.heartRate \in {"Normal", "Elevated", "Low", "High"}
       /\ qOut.spo2 \in {"Normal", "Low", "Critical"}
       /\ qOut.stress \in {"Low", "Moderate", "High"}

C22_Witness ==
  /\ qState = "classified"
  /\ qIn.value = 100
  /\ qOut.heartRate = "Normal"
  /\ qOut.spo2 = "Normal"
  /\ qOut.stress = "High"

CurrentKey == ResolveRange(selectedUserId, dateRange).cacheKey

FetchedFor(series, userId, key) ==
  \A i \in 1..Len(series) : series[i].user = userId /\ series[i].key = key

\* C23 (as claimed): in the Success view every sample shown was fetched for
\* the currently selected user and the currently selected range.
C23_SuccessShowsCurrentSelection ==
  SuccessView => FetchedFor(heartRateData, selectedUserId, CurrentKey)

\* C24 (as claimed): while the most recently issued fetch of a mounted panel
\* is still pending, the panel is loading.
C24_LoadingWhileLatestPending ==
  (isMountedRef /\ \E req \in pending : req.id = abortControllerRef) => loading

KeyUser(key) == key[1]

\* C26: every cache entry holds a series whose samples were returned by a
\* request for the user and the range of the entry's key, also when the
\* resolutions of overlapping fetches arrive in any order.
C26_CacheEntryMatchesKey ==
  \A k \in DOMAIN cacheRef :
    \A i \in 1..Len(cacheRef[k].data) :
      /\ cacheRef[k].data[i].key = k
      /\ KeyUser(k) = (IF cacheRef[k].data[i].user = Null THEN "null"
                       ELSE cacheRef[k].data[i].user)

C26_Witness ==
  /\ lastEvent.op = "resolveOk"
  /\ ~lastEvent.current
  /\ lastEvent.data # <<>>
  /\ lastEvent.key # CurrentKey
  /\ lastEvent.key \in DOMAIN cacheRef
  /\ cacheRef[lastEvent.key].timestamp = now
  /\ pending # {}

\* C27: a fetch that fails with anything but an abort leaves the series the
\* panel holds, the whole cache and the parent's series untouched; only
\* error and loading may change.
C27_FailureFrame ==
  [][(lastEvent'.op = "resolveErr" /\ ~IsAbort(lastEvent'.err))
       => UNCHANGED <<heartRateData, cacheRef, parentData, cbCount,
                      selectedUserId, dateRange>>]_vars

C27_Witness ==
  /\ lastEvent.op = "resolveErr"
  /\ lastEvent.err = HttpError
  /\ isMountedRef
  /\ error = ErrorMessage
  /\ heartRateData # <<>>
  /\ parentData = <<heartRateData>>
  /\ cacheRef # <<>>

RingPercentage(achieved, dailyGoal, records) ==
  Min(100, Round(100 * achieved, dailyGoal * records))

RingAgrees(ring, field) ==
  /\ ring.percentage = RingPercentage(SumOf(qIn, field), DailyGoals[field], Len(qIn))
  /\ ring.goal = DailyGoals[field] * Len(qIn)

\* C28 (as claimed): each ring's percentage is min(100, round(100 x amount
\* achieved in the period / (daily goal x number of records))), the goal
\* shown next to it being the daily goal times the number of records.
C28_RingPercentages ==
  (qState = "charted" /\ Len(qIn) > 0)
    => LET chart == qOut.chartData[1]
       IN /\ RingAgrees(chart.Steps, "step")
          /\ RingAgrees(chart.Distance, "distance")
          /\ RingAgrees(chart.Calories, "calories")
          /\ RingAgrees(chart.Exercise, "exercise_minutes")

\* C29: in every state of the filter controls customRange is true exactly
\* when the period is 'custom', and while customRange is false both from
\* and to are null.
C29_CustomFlagMatchesPeriod ==
  /\ dateRange.customRange <=> (dateRange.period = "custom")
  /\ ~dateRange.customRange => (dateRange.from = NoDate /\ dateRange.to = NoDate)

C29_Witness ==
  /\ lastEvent.op = "clearFilter"
  /\ ~dateRange.customRange
  /\ dateRange.period = "today"
  /\ dateRange.from = NoDate /\ dateRange.to = NoDate
  /\ activeFilter = "today"
  /\ ~showDatePicker

Displayed ==
  (IF rtData = <<>> THEN {} ELSE {rtData[1][i] : i \in 1..Len(rtData[1])})
    \cup {rtLatest[i] : i \in 1..Len(rtLatest)}

\* C30 (as claimed): a failed poll records the error and leaves the readings
\* of the last successful poll in place, and every reading the dashboard
\* displays was part of a server response for the current patient.
C30_FailedPollKeepsLastReadings ==
  [][/\ lastEvent'.op = "pollFail"
          => (rtError' # Null /\ rtData' = rtData /\ rtLatest' = rtLatest)
     /\ lastEvent'.op \in {"pollOk", "pollFail"}
          => Displayed' \subseteq rtServed'[patientId']]_vars

\* C25: if every request is eventually answered, a mounted panel that is
\* loading eventually stops loading (or is unmounted), and loading is set
\* again only by the fetch of a selection change or a retry.
C25_LoadingEventuallyLeft ==
  /\ (phase = "mounted" /\ loading) ~> (~loading \/ phase = "unmounted")
  /\ [][(~loading /\ loading')
          => (lastEvent'.op = "fetch" /\ lastEvent'.via \in {"change", "retry"})]_vars

C25_Witness ==
  /\ phase = "mounted"
  /\ lastEvent.op = "resolveOk"
  /\ lastEvent.current
  /\ pending = {}
  /\ ~loading
  /\ nextId > MaxFetches

=============================================================================
